---- MODULE Spec2Model ----
(***************************************************************************)
(* Model of langflow's If-Else component (ConditionalRouterComponent,      *)
(* components/logic/conditional_router.py) and of the input selection of   *)
(* the AssemblyAI LeMUR component (components/assemblyai/                  *)
(* assemblyai_lemur.py).                                                   *)
(*                                                                         *)
(* Texts are sequences of one-character strings, so that lower(), `in`,    *)
(* startswith() and endswith() are computed, not assumed.                  *)
(***************************************************************************)
EXTENDS Integers, Sequences, FiniteSets, TLC

VARIABLES
    \* ConditionalRouterComponent: configuration inputs
    max_iterations, default_route, message,
    \* ConditionalRouterComponent: inputs of the current invocation
    input_text, match_text, operator, case_sensitive,
    \* ConditionalRouterComponent: own state
    iteration_updated, status,
    \* host graph: run context, stop() signals and accessor results of the
    \* current invocation, number of invocations started, feedback edge
    ctx, stops, ret_true, ret_false, invocations, loop_edge,
    \* evaluate_condition applied on its own
    result,
    \* AssemblyAILeMUR
    transcription_result, transcript_ids, endpoint, prompt, questions,
    lemur_out, lemur_status, group_ids,
    \* host workers invoking the vertex concurrently, and the host's policy
    workers, serialized,
    \* invocations of another If-Else vertex of the same graph
    other_invocations

routerVars == <<max_iterations, default_route, message, input_text, match_text,
                operator, case_sensitive, iteration_updated, status, ctx, stops,
                ret_true, ret_false, invocations, loop_edge>>

lemurVars == <<transcription_result, transcript_ids, endpoint, prompt, questions,
               lemur_out, lemur_status, group_ids>>

extraVars == <<workers, serialized, other_invocations>>

vars == <<routerVars, result, lemurVars, extraVars>>

----------------------------------------------------------------------------
(* Bounds *)

\* longest text handed to evaluate_condition on its own
MaxLen == 3
\* largest configured max_iterations
MaxIter == 3
\* invocations of the evaluator the host starts in one run
MaxInvocations == 4
\* longest Transcript IDs input
MaxIdsLen == 3
\* invocations started by the concurrent workers in one run
MaxConcInvocations == 3
\* invocations of the other If-Else vertex in one run
MaxOtherInvocations == 2

----------------------------------------------------------------------------
(* Texts *)

Alphabet == {"F", "f", "o"}

RECURSIVE TextsOfLen(_)
TextsOfLen(n) ==
    IF n = 0 THEN {<<>>}
    ELSE {Append(t, c) : t \in TextsOfLen(n - 1), c \in Alphabet}

Texts == UNION {TextsOfLen(n) : n \in 0..MaxLen}

\* texts the host feeds the router with
RouterTexts == {<<"f">>, <<"F">>, <<"f", "o">>}

\* str.lower() on one character of the alphabet
lower_char(c) == IF c = "F" THEN "f" ELSE c

\* str.lower()
lower(s) == [i \in 1..Len(s) |-> lower_char(s[i])]

\* input_text.startswith(match_text)
startswith(s, prefix) ==
    /\ Len(prefix) <= Len(s)
    /\ SubSeq(s, 1, Len(prefix)) = prefix

\* input_text.endswith(match_text)
endswith(s, suffix) ==
    /\ Len(suffix) <= Len(s)
    /\ SubSeq(s, Len(s) - Len(suffix) + 1, Len(s)) = suffix

\* match_text in input_text: scan the start offsets left to right
RECURSIVE find_from(_, _, _)
find_from(s, sub, start) ==
    IF start + Len(sub) - 1 > Len(s) THEN FALSE
    ELSE IF SubSeq(s, start, start + Len(sub) - 1) = sub THEN TRUE
    ELSE find_from(s, sub, start + 1)

contains(sub, s) == find_from(s, sub, 1)

----------------------------------------------------------------------------
(* ConditionalRouterComponent.evaluate_condition *)

RecognizedOperators == {"equals", "not equals", "contains", "starts with", "ends with"}

Operators == RecognizedOperators \cup {"matches regex"}

\* the operations dict, built after the optional lower()
operations(a, b) ==
    [op \in RecognizedOperators |->
        CASE op = "equals"      -> a = b
          [] op = "not equals"  -> a # b
          [] op = "contains"    -> contains(b, a)
          [] op = "starts with" -> startswith(a, b)
          [] op = "ends with"   -> endswith(a, b)]

\* mutant: only input_text is lowered
evaluate_condition_lower_one(a, b, op, cs) ==
    LET a1 == IF ~cs THEN lower(a) ELSE a
        ops == operations(a1, b)
    IN  IF op \in DOMAIN ops THEN ops[op] ELSE FALSE

\* mutant: an unknown operator counts as a match
evaluate_condition_default_true(a, b, op, cs) ==
    LET a1 == IF ~cs THEN lower(a) ELSE a
        b1 == IF ~cs THEN lower(b) ELSE b
        ops == operations(a1, b1)
    IN  IF op \in DOMAIN ops THEN ops[op] ELSE TRUE

\* mutant: "not equals" compares the texts as given, before lower()
evaluate_condition_ne_raw(a, b, op, cs) ==
    LET a1 == IF ~cs THEN lower(a) ELSE a
        b1 == IF ~cs THEN lower(b) ELSE b
        ops == operations(a1, b1)
    IN  IF op = "not equals" THEN a # b
        ELSE IF op \in DOMAIN ops THEN ops[op] ELSE FALSE

evaluate_condition(a, b, op, cs) ==
    LET a1 == IF ~cs THEN lower(a) ELSE a
        b1 == IF ~cs THEN lower(b) ELSE b
        ops == operations(a1, b1)
    IN  IF op \in DOMAIN ops THEN ops[op] ELSE FALSE

----------------------------------------------------------------------------
(* Host graph: run context, stop signal, edges *)

Edges == {"true_result", "false_result"}

Messages == {"msg"}

\* an accessor that the host has not evaluated in the current invocation
NotCalled == "<not called>"

\* self.status before any accessor has set it
NoStatus == "<no status>"

self_id == "ConditionalRouter-1"

\* mutant: the key does not carry the instance id
iteration_key_shared == "_iteration"

\* iteration_key = f"{self._id}_iteration"
iteration_key == self_id \o "_iteration"

\* a key of the run context that belongs to another vertex
other_key == "ConditionalRouter-2_iteration"

EmptyCtx == [k \in {} |-> 0]

\* the run context when the run starts: nothing of this instance in it
InitialContexts == {EmptyCtx, [k \in {other_key} |-> 2]}

\* self.ctx.get(key, default)
ctx_get(key, default) == IF key \in DOMAIN ctx THEN ctx[key] ELSE default

\* self.update_ctx(d): merge d into the run context
update_ctx(d) ==
    ctx' = [k \in DOMAIN ctx \cup DOMAIN d |-> IF k \in DOMAIN d THEN d[k] ELSE ctx[k]]

\* self.stop(output_name): the host records the edge to prune
stop(route) == stops' = Append(stops, route)

Range(seq) == {seq[i] : i \in DOMAIN seq}

\* the counter the run context holds for this instance
Count == ctx_get(iteration_key, 0)

----------------------------------------------------------------------------
(* ConditionalRouterComponent *)

\* mutant: the cap is compared with > instead of >=
flip_needed_gt(iteration_count, route_to_stop) ==
    iteration_count > max_iterations /\ route_to_stop = default_route

\* mutant: the guard never flips
flip_needed_never(iteration_count, route_to_stop) == FALSE

\* mutant: the cap is compared with the count before the increment is due,
\* one invocation early
flip_needed_early(iteration_count, route_to_stop) ==
    iteration_count + 1 >= max_iterations /\ route_to_stop = default_route

\* the condition of line 94
flip_needed(iteration_count, route_to_stop) ==
    iteration_count >= max_iterations /\ route_to_stop = default_route

\* "true_result" if route_to_stop == "false_result" else "false_result"
alternate(route_to_stop) ==
    IF route_to_stop = "false_result" THEN "true_result" ELSE "false_result"

\* mutant: no once-per-invocation flag
iterate_and_stop_once_unguarded(route_to_stop) ==
    LET iteration_count == ctx_get(iteration_key, 0) + 1
    IN  /\ update_ctx([k \in {iteration_key} |-> iteration_count])
        /\ iteration_updated' = TRUE
        /\ stop(IF flip_needed(iteration_count, route_to_stop)
                THEN alternate(route_to_stop) ELSE route_to_stop)

iterate_and_stop_once(route_to_stop) ==
    IF ~iteration_updated
    THEN LET iteration_count == ctx_get(iteration_key, 0) + 1
         IN  /\ update_ctx([k \in {iteration_key} |-> iteration_count])
             /\ iteration_updated' = TRUE
             /\ stop(IF flip_needed(iteration_count, route_to_stop)
                     THEN alternate(route_to_stop) ELSE route_to_stop)
    ELSE UNCHANGED <<ctx, iteration_updated, stops>>

\* mutant: the flag is left as the previous invocation set it
pre_run_setup_keep == UNCHANGED iteration_updated

\* _pre_run_setup
pre_run_setup == iteration_updated' = FALSE

true_response ==
    LET res == evaluate_condition(input_text, match_text, operator, case_sensitive)
    IN  IF res
        THEN /\ status' = message
             /\ iterate_and_stop_once("false_result")
             /\ ret_true' = message
        ELSE /\ iterate_and_stop_once("true_result")
             /\ ret_true' = ""
             /\ UNCHANGED status

\* mutant: the two branches ask for each other's route
false_response_swapped ==
    IF ~evaluate_condition(input_text, match_text, operator, case_sensitive)
    THEN /\ status' = message
         /\ iterate_and_stop_once("false_result")
         /\ ret_false' = message
    ELSE /\ iterate_and_stop_once("true_result")
         /\ ret_false' = ""
         /\ UNCHANGED status

false_response ==
    IF ~evaluate_condition(input_text, match_text, operator, case_sensitive)
    THEN /\ status' = message
         /\ iterate_and_stop_once("true_result")
         /\ ret_false' = message
    ELSE /\ iterate_and_stop_once("false_result")
         /\ ret_false' = ""
         /\ UNCHANGED status

----------------------------------------------------------------------------
(* AssemblyAILeMUR.run_lemur *)

None == [none |-> TRUE]

\* Data(data=d)
Data(d) == [data |-> d]

\* truth value of d.get(key) for a dict of strings
dict_get_truthy(d, key) == key \in DOMAIN d /\ d[key] # ""

\* str.split(sep)
RECURSIVE split_from(_, _, _, _)
split_from(s, sep, i, piece) ==
    IF i > Len(s) THEN <<piece>>
    ELSE IF s[i] = sep THEN <<piece>> \o split_from(s, sep, i + 1, <<>>)
    ELSE split_from(s, sep, i + 1, Append(piece, s[i]))

split(s, sep) == split_from(s, sep, 1, <<>>)

IdAlphabet == {"a", ","}

RECURSIVE IdTextsOfLen(_)
IdTextsOfLen(n) ==
    IF n = 0 THEN {<<>>}
    ELSE {Append(t, c) : t \in IdTextsOfLen(n - 1), c \in IdAlphabet}

\* values of the Transcript IDs input
IdTexts == UNION {IdTextsOfLen(n) : n \in 0..MaxIdsLen}

\* values of the Transcription Result input: absent, the Data of a
\* transcription (with its id, and its error if it has one), or the Data of
\* a failed transcription request (the error alone)
TranscriptionResults ==
    {None,
     Data([k \in {"id"} |-> <<"t">>]),
     Data([k \in {"error"} |-> "transcription failed"]),
     Data([k \in {"id", "error"} |-> IF k = "id" THEN <<"t">> ELSE "transcription failed"])}

Endpoints == {"task", "summary", "question-answer"}

\* what the AssemblyAI service does with the request
ExternalOutcomes == {"ok", "failures", "transcript error", "lemur exception"}

KeyError == [raised |-> "KeyError"]

\* lines 91-98: the error found before any request is made, <<>> for None
input_error(tr, ids, ep, p, q) ==
    IF tr = None /\ ids = <<>>
    THEN <<"Either a Transcription Result or Transcript IDs must be provided">>
    ELSE IF tr # None /\ dict_get_truthy(tr.data, "error")
    THEN <<tr.data["error"]>>
    ELSE IF ep = "task" /\ p = ""
    THEN <<"No prompt specified for the task endpoint">>
    ELSE IF ep = "question-answer" /\ q = ""
    THEN <<"No Questions were provided for the question-answer endpoint">>
    ELSE <<>>

\* lines 104-106: the ids the transcript group is built from
group_transcript_ids(tr, ids) ==
    IF tr # None THEN <<tr.data["id"]>> ELSE split(ids, ",")

\* the whole of run_lemur: the Data returned (or the exception raised) and
\* the transcript group requested, <<>> when none was
run_lemur(tr, ids, ep, p, q, ext) ==
    LET error == input_error(tr, ids, ep, p, q)
    IN  IF error # <<>>
        THEN [out |-> Data([k \in {"error"} |-> error[1]]), group |-> <<>>]
        ELSE IF tr # None /\ "id" \notin DOMAIN tr.data
        THEN [out |-> KeyError, group |-> <<>>]
        ELSE LET tids == group_transcript_ids(tr, ids)
                 failed(msg) == [out |-> Data([k \in {"error"} |-> msg]), group |-> <<tids>>]
             IN  CASE ext = "failures" -> failed("Getting transcriptions failed")
                   [] ext = "transcript error" -> failed("transcript status error")
                   [] ext = "lemur exception" -> failed("An Error happened")
                   [] OTHER ->
                        [out |-> Data([endpoint |-> ep,
                                       transcripts |-> tids,
                                       prompt |-> IF ep = "task" THEN p ELSE "",
                                       questions |-> IF ep = "question-answer" THEN q ELSE ""]),
                         group |-> <<tids>>]

LemurIdle ==
    /\ transcription_result = None
    /\ transcript_ids = <<>>
    /\ endpoint = "task"
    /\ prompt = ""
    /\ questions = ""
    /\ lemur_out = None
    /\ lemur_status = None
    /\ group_ids = <<>>

----------------------------------------------------------------------------
(* The host's invocation cycle of one If-Else vertex *)

configVars == <<max_iterations, default_route, message>>

\* the host's workers
Workers == {"w1", "w2"}

\* a worker that is not building the vertex
IdleWorker == [pc |-> "idle", acc |-> "none", route |-> "none", count |-> 0, ret |-> ""]

\* one invocation at a time, no other vertex invoked
ExtraIdle ==
    /\ workers = [w \in Workers |-> IdleWorker]
    /\ serialized = TRUE
    /\ other_invocations = 0

Evaluated == ret_true # NotCalled \/ ret_false # NotCalled

\* the host builds the vertex: it sets the inputs, calls _pre_run_setup and
\* then evaluates the outputs.  With a feedback edge the vertex is built
\* again only while that edge has not been stopped.
HostInvoke ==
    /\ invocations < MaxInvocations
    /\ invocations > 0 => Evaluated
    /\ (invocations > 0 /\ loop_edge \in Edges) => loop_edge \notin Range(stops)
    /\ invocations' = invocations + 1
    /\ input_text' \in RouterTexts
    /\ match_text' \in RouterTexts
    /\ operator' \in Operators
    /\ case_sensitive' \in BOOLEAN
    /\ pre_run_setup
    /\ stops' = <<>>
    /\ ret_true' = NotCalled
    /\ ret_false' = NotCalled
    /\ UNCHANGED <<configVars, status, ctx, loop_edge, result, lemurVars, extraVars>>

EvaluateTrue ==
    /\ invocations > 0
    /\ true_response
    /\ UNCHANGED <<configVars, input_text, match_text, operator, case_sensitive,
                   ret_false, invocations, loop_edge, result, lemurVars, extraVars>>

EvaluateFalse ==
    /\ invocations > 0
    /\ false_response
    /\ UNCHANGED <<configVars, input_text, match_text, operator, case_sensitive,
                   ret_true, invocations, loop_edge, result, lemurVars, extraVars>>

\* the state after construction, before the first invocation
RouterInit ==
    /\ max_iterations \in 0..MaxIter
    /\ default_route \in Edges
    /\ message \in Messages
    /\ input_text = <<>>
    /\ match_text = <<>>
    /\ operator = "equals"
    /\ case_sensitive = FALSE
    /\ iteration_updated = FALSE
    /\ status = NoStatus
    /\ ctx \in InitialContexts
    /\ stops = <<>>
    /\ ret_true = NotCalled
    /\ ret_false = NotCalled
    /\ invocations = 0

Init ==
    /\ RouterInit
    /\ loop_edge = "none"
    /\ result = <<>>
    /\ LemurIdle
    /\ ExtraIdle

Next == HostInvoke \/ EvaluateTrue \/ EvaluateFalse

Spec == Init /\ [][Next]_vars

\* the same vertex with one of its outputs wired back to its own input
LoopInit ==
    /\ RouterInit
    /\ loop_edge \in Edges
    /\ result = <<>>
    /\ LemurIdle
    /\ ExtraIdle

LoopSpec == LoopInit /\ [][Next]_vars

----------------------------------------------------------------------------
(* Two host workers building the same vertex.  The component takes no lock, *)
(* so the statements of an accessor and of iterate_and_stop_once are        *)
(* separate steps; self.* and the run context are shared, route_to_stop and *)
(* iteration_count are locals of the worker.                                *)

busy(w) == workers[w].pc # "idle"

\* workers that have started an invocation and not yet stored its count
BeforeWrite == {w \in Workers : workers[w].pc \in {"call", "check", "read", "write"}}

\* texts the host feeds the vertex with here; match_text and operator keep
\* their defaults, so that the predicate is true for the empty text only
ConcTexts == {<<>>, <<"f">>}

\* the host starts an invocation on worker w: it sets the input and calls
\* _pre_run_setup.  A serializing host waits for the other worker.
CStart(w) ==
    /\ ~busy(w)
    /\ serialized => \A v \in Workers : ~busy(v)
    /\ invocations < MaxConcInvocations
    /\ invocations' = invocations + 1
    /\ input_text' \in ConcTexts
    /\ pre_run_setup
    /\ workers' = [workers EXCEPT ![w] = [IdleWorker EXCEPT !.pc = "call"]]
    /\ UNCHANGED <<configVars, match_text, operator, case_sensitive, status, ctx, stops,
                   ret_true, ret_false, loop_edge, result, lemurVars,
                   serialized, other_invocations>>

\* true_response / false_response up to the call of iterate_and_stop_once
CCall(w) ==
    /\ workers[w].pc = "call"
    /\ \E acc \in {"true_response", "false_response"} :
          LET res == evaluate_condition(input_text, match_text, operator, case_sensitive)
              match == IF acc = "true_response" THEN res ELSE ~res
              route == IF acc = "true_response"
                       THEN (IF res THEN "false_result" ELSE "true_result")
                       ELSE (IF ~res THEN "true_result" ELSE "false_result")
          IN  /\ status' = IF match THEN message ELSE status
              /\ workers' = [workers EXCEPT ![w] =
                                [@ EXCEPT !.pc = "check", !.acc = acc, !.route = route,
                                          !.ret = IF match THEN message ELSE ""]]
    /\ UNCHANGED <<configVars, input_text, match_text, operator, case_sensitive,
                   iteration_updated, ctx, stops, ret_true, ret_false, invocations,
                   loop_edge, result, lemurVars, serialized, other_invocations>>

\* the accessor returns
returned(w) ==
    /\ ret_true' = IF workers[w].acc = "true_response" THEN workers[w].ret ELSE ret_true
    /\ ret_false' = IF workers[w].acc = "false_response" THEN workers[w].ret ELSE ret_false

\* line 88: if not self.__iteration_updated
CCheck(w) ==
    /\ workers[w].pc = "check"
    /\ IF ~iteration_updated
       THEN /\ workers' = [workers EXCEPT ![w].pc = "read"]
            /\ UNCHANGED <<ret_true, ret_false>>
       ELSE /\ workers' = [workers EXCEPT ![w] = IdleWorker]
            /\ returned(w)
    /\ UNCHANGED <<configVars, input_text, match_text, operator, case_sensitive,
                   iteration_updated, status, ctx, stops, invocations,
                   loop_edge, result, lemurVars, serialized, other_invocations>>

\* line 90: iteration_count = self.ctx.get(iteration_key, 0) + 1
CRead(w) ==
    /\ workers[w].pc = "read"
    /\ workers' = [workers EXCEPT ![w] =
                      [@ EXCEPT !.pc = "write", !.count = ctx_get(iteration_key, 0) + 1]]
    /\ UNCHANGED <<routerVars, result, lemurVars, serialized, other_invocations>>

\* line 91: self.update_ctx({iteration_key: iteration_count})
CWrite(w) ==
    /\ workers[w].pc = "write"
    /\ update_ctx([k \in {iteration_key} |-> workers[w].count])
    /\ workers' = [workers EXCEPT ![w].pc = "flag"]
    /\ UNCHANGED <<configVars, input_text, match_text, operator, case_sensitive,
                   iteration_updated, status, stops, ret_true, ret_false, invocations,
                   loop_edge, result, lemurVars, serialized, other_invocations>>

\* line 92: self.__iteration_updated = True
CSetFlag(w) ==
    /\ workers[w].pc = "flag"
    /\ iteration_updated' = TRUE
    /\ workers' = [workers EXCEPT ![w].pc = "stop"]
    /\ UNCHANGED <<configVars, input_text, match_text, operator, case_sensitive,
                   status, ctx, stops, ret_true, ret_false, invocations,
                   loop_edge, result, lemurVars, serialized, other_invocations>>

\* lines 94-97, and the accessor's return
CStop(w) ==
    /\ workers[w].pc = "stop"
    /\ stop(IF flip_needed(workers[w].count, workers[w].route)
            THEN alternate(workers[w].route) ELSE workers[w].route)
    /\ returned(w)
    /\ workers' = [workers EXCEPT ![w] = IdleWorker]
    /\ UNCHANGED <<configVars, input_text, match_text, operator, case_sensitive,
                   iteration_updated, status, ctx, invocations,
                   loop_edge, result, lemurVars, serialized, other_invocations>>

ConcInit ==
    /\ RouterInit
    /\ ctx = EmptyCtx
    /\ loop_edge = "none"
    /\ result = <<>>
    /\ LemurIdle
    /\ workers = [w \in Workers |-> IdleWorker]
    /\ serialized \in BOOLEAN
    /\ other_invocations = 0

ConcNext ==
    \E w \in Workers :
        CStart(w) \/ CCall(w) \/ CCheck(w) \/ CRead(w) \/ CWrite(w) \/ CSetFlag(w) \/ CStop(w)

ConcSpec == ConcInit /\ [][ConcNext]_vars

----------------------------------------------------------------------------
(* A second If-Else vertex in the same graph run.  It runs the same code    *)
(* under its own id: its invocation stores its own counter in the shared    *)
(* run context and stops one of its own edges.                              *)

OtherInvoke ==
    /\ other_invocations < MaxOtherInvocations
    /\ other_invocations' = other_invocations + 1
    /\ update_ctx([k \in {other_key} |-> ctx_get(other_key, 0) + 1])
    /\ UNCHANGED <<configVars, input_text, match_text, operator, case_sensitive,
                   iteration_updated, status, stops, ret_true, ret_false, invocations,
                   loop_edge, result, lemurVars, workers, serialized>>

\* an invocation of this vertex with match_text and operator as configured
\* in the graph; the text and the case mode vary
FrameInvoke ==
    /\ match_text' = <<"f">>
    /\ operator' = "equals"
    /\ HostInvoke

FrameNext == FrameInvoke \/ EvaluateTrue \/ EvaluateFalse \/ OtherInvoke

FrameSpec == Init /\ [][FrameNext]_vars

----------------------------------------------------------------------------
(* evaluate_condition on its own, over every pair of bounded texts *)

RouterIdle ==
    /\ max_iterations = 0
    /\ default_route = "false_result"
    /\ message = "msg"
    /\ iteration_updated = FALSE
    /\ status = NoStatus
    /\ ctx = EmptyCtx
    /\ stops = <<>>
    /\ ret_true = NotCalled
    /\ ret_false = NotCalled
    /\ invocations = 0
    /\ loop_edge = "none"

EvalInit ==
    /\ RouterIdle
    /\ input_text \in Texts
    /\ match_text \in Texts
    /\ operator \in Operators
    /\ case_sensitive \in BOOLEAN
    /\ result = <<>>
    /\ LemurIdle
    /\ ExtraIdle

Evaluate ==
    /\ result = <<>>
    /\ result' = <<evaluate_condition(input_text, match_text, operator, case_sensitive)>>
    /\ UNCHANGED <<routerVars, lemurVars, extraVars>>

EvalNext == Evaluate

EvalSpec == EvalInit /\ [][EvalNext]_vars

----------------------------------------------------------------------------
(* One run of the LeMUR component *)

LemurInit ==
    /\ RouterIdle
    /\ input_text = <<>>
    /\ match_text = <<>>
    /\ operator = "equals"
    /\ case_sensitive = FALSE
    /\ result = <<>>
    /\ transcription_result \in TranscriptionResults
    /\ transcript_ids \in IdTexts
    /\ endpoint \in Endpoints
    /\ prompt \in {"", "p"}
    /\ questions \in {"", "q"}
    /\ lemur_out = None
    /\ lemur_status = None
    /\ group_ids = <<>>
    /\ ExtraIdle

RunLemur ==
    /\ lemur_out = None
    /\ \E ext \in ExternalOutcomes :
          LET r == run_lemur(transcription_result, transcript_ids, endpoint,
                             prompt, questions, ext)
          IN  /\ lemur_out' = r.out
              \* self.status = error, or self.status = result
              /\ lemur_status' = IF r.out = KeyError THEN lemur_status
                                 ELSE IF "error" \in DOMAIN r.out.data
                                 THEN [str |-> r.out.data["error"]] ELSE r.out
              /\ group_ids' = r.group
    /\ UNCHANGED <<routerVars, result, transcription_result, transcript_ids,
                   endpoint, prompt, questions, extraVars>>

LemurNext == RunLemur

LemurSpec == LemurInit /\ [][LemurNext]_vars

----------------------------------------------------------------------------
(* Vocabulary of the properties *)

\* the predicate of the current invocation
Predicate == evaluate_condition(input_text, match_text, operator, case_sensitive)

\* the edge whose accessor returns the message
TakenEdge(res) == IF res THEN "true_result" ELSE "false_result"

Opposite(edge) == IF edge = "true_result" THEN "false_result" ELSE "true_result"

Taken == TakenEdge(Predicate)

\* each accessor the host has evaluated returned the message on the taken
\* edge and the empty string on the other one
ReturnsFollowPredicate ==
    /\ ret_true # NotCalled => ret_true = (IF Predicate THEN message ELSE "")
    /\ ret_false # NotCalled => ret_false = (IF Predicate THEN "" ELSE message)

AtLeast1(n) == IF n > 1 THEN n ELSE 1

----------------------------------------------------------------------------
(* C1 *)

\* C1 as claimed: in every invocation the accessor of the taken edge returns
\* the message (true_result iff the predicate is true) and the one stop()
\* signal names the other edge, at any count and for any setting.
C1_AsClaimed ==
    /\ ReturnsFollowPredicate
    /\ Evaluated => stops = <<Opposite(Taken)>>

\* C1 amended: the accessor of the taken edge returns the message and exactly
\* one edge is stopped; it is the untaken edge unless the counter has reached
\* max_iterations and the untaken edge is default_route, and then it is the
\* taken edge.
C1_OneEdgeTakenOneStopped ==
    /\ ReturnsFollowPredicate
    /\ ~Evaluated => stops = <<>>
    /\ Evaluated =>
          stops = <<IF Count >= max_iterations /\ Opposite(Taken) = default_route
                    THEN Taken ELSE Opposite(Taken)>>

\* both accessors evaluated at the cap: the True edge returned the message
\* and is the one stopped
C1_Witness ==
    /\ ret_true = message
    /\ ret_false = ""
    /\ stops = <<"true_result">>
    /\ max_iterations = 2
    /\ invocations = 2

----------------------------------------------------------------------------
(* C2 *)

\* C2: on invocation number max_iterations and on every later one, when the
\* edge opposite the predicate result is default_route, the edge passed to
\* stop() is the other one (the taken edge).
C2_GuardFlipsFromCap ==
    (Evaluated /\ invocations >= max_iterations /\ Opposite(Taken) = default_route)
        => stops = <<Taken>>

\* max_iterations = 3, default_route = false_result, predicate true on the
\* third invocation: true_result is stopped
C2_Witness ==
    /\ max_iterations = 3
    /\ default_route = "false_result"
    /\ invocations = 3
    /\ Predicate
    /\ Evaluated
    /\ stops = <<"true_result">>

----------------------------------------------------------------------------
(* C3 *)

\* C3: once the counter has reached max_iterations it stays there, and from
\* then on no stop() signal names default_route.
C3_DefaultRouteKeptAlive ==
    [][/\ Count >= max_iterations => Count' >= max_iterations
       /\ Count' >= max_iterations => default_route \notin Range(stops')]_vars

\* an invocation past the cap whose predicate asks for default_route to be
\* stopped
C3_Witness ==
    /\ max_iterations >= 1
    /\ Count > max_iterations
    /\ Evaluated
    /\ Opposite(Taken) = default_route
    /\ stops = <<Taken>>

----------------------------------------------------------------------------
(* C4 *)

\* C4 as claimed: with an output wired back to the evaluator, whatever
\* default_route is, the loop-back edge is stopped on invocation number
\* max_iterations, so the evaluator is never invoked more often than that.
C4_AsClaimed ==
    /\ invocations <= AtLeast1(max_iterations)
    /\ (Evaluated /\ invocations >= max_iterations) => loop_edge \in Range(stops)

\* C4 amended: the same, when the loop-back edge is not default_route.
C4_LoopEndsOffDefaultRoute ==
    loop_edge # default_route =>
        /\ invocations <= AtLeast1(max_iterations)
        /\ (Evaluated /\ invocations >= max_iterations) => loop_edge \in Range(stops)

\* the loop ran max_iterations = 3 times on the predicate's own choice and is
\* cut on the third invocation although the predicate selects it again
C4_Witness ==
    /\ loop_edge # default_route
    /\ max_iterations = 3
    /\ invocations = 3
    /\ Evaluated
    /\ Taken = loop_edge
    /\ stops = <<loop_edge>>

----------------------------------------------------------------------------
(* C5 *)

\* C5: between two pre-run setups only the first accessor evaluated
\* increments the counter, by one; every further evaluation of either
\* accessor, and the setup itself, leave it as it is.
C5_OneIncrementPerInvocation ==
    [][Count' = IF invocations' = invocations /\ ~Evaluated THEN Count + 1 ELSE Count]_vars

\* both accessors evaluated in the second invocation, counter at 2
C5_Witness ==
    /\ invocations = 2
    /\ ret_true # NotCalled
    /\ ret_false # NotCalled
    /\ Count = 2

----------------------------------------------------------------------------
(* C6 *)

\* C6: the counter is absent before the first invocation and read as 0; it
\* equals the number of invocations that have evaluated an accessor; the
\* flag is clear when an invocation starts.
C6_CounterCountsInvocations ==
    /\ invocations = 0 => iteration_key \notin DOMAIN ctx
    /\ Count = IF Evaluated THEN invocations ELSE AtLeast1(invocations) - 1
    /\ (invocations > 0 /\ ~Evaluated) => ~iteration_updated
    /\ Evaluated => iteration_updated

\* the third invocation has evaluated an accessor
C6_Witness ==
    /\ invocations = 3
    /\ Evaluated
    /\ Count = 3

----------------------------------------------------------------------------
(* C7 *)

ShortTexts == TextsOfLen(0) \cup TextsOfLen(1) \cup TextsOfLen(2)

\* C7: with an operator outside the five recognized ones evaluate_condition
\* is false for all texts and both case modes; the invocation takes the
\* False edge, increments the counter, and below the cap stops the True edge.
C7_UnknownOperatorIsNoMatch ==
    operator \notin RecognizedOperators =>
        /\ \A a \in ShortTexts, b \in ShortTexts, cs \in BOOLEAN :
              evaluate_condition(a, b, operator, cs) = FALSE
        /\ ret_true \in {NotCalled, ""}
        /\ ret_false \in {NotCalled, message}
        /\ Evaluated => Count = invocations
        /\ (Evaluated /\ Count < max_iterations) => stops = <<"true_result">>

\* an unknown operator, both accessors evaluated below the cap
C7_Witness ==
    /\ operator = "matches regex"
    /\ ret_true = ""
    /\ ret_false = message
    /\ Count = 1
    /\ max_iterations = 2
    /\ stops = <<"true_result">>

----------------------------------------------------------------------------
(* C8 *)

\* two characters are the same, or the same up to case
SameChar(cs, c, d) == c = d \/ (~cs /\ {c, d} = {"F", "f"})

\* b occurs in a at offset k
OccursAt(cs, a, b, k) ==
    /\ k >= 0
    /\ k + Len(b) <= Len(a)
    /\ \A j \in 1..Len(b) : SameChar(cs, a[k + j], b[j])

\* the predicate table
Reference(a, b, op, cs) ==
    CASE op = "equals"      -> Len(a) = Len(b) /\ OccursAt(cs, a, b, 0)
      [] op = "not equals"  -> ~(Len(a) = Len(b) /\ OccursAt(cs, a, b, 0))
      [] op = "contains"    -> \E k \in 0..Len(a) : OccursAt(cs, a, b, k)
      [] op = "starts with" -> OccursAt(cs, a, b, 0)
      [] op = "ends with"   -> OccursAt(cs, a, b, Len(a) - Len(b))

\* C8: for every recognized operator evaluate_condition returns what the
\* predicate table says, comparing up to case iff case_sensitive is false;
\* contains is true for an empty match_text, starts with / ends with are true
\* for equal texts, and Equals("Foo", "foo") is true iff case is ignored.
C8_AgreesWithPredicateTable ==
    (result # <<>> /\ operator \in RecognizedOperators) =>
        /\ result[1] = Reference(input_text, match_text, operator, case_sensitive)
        /\ (operator = "contains" /\ match_text = <<>>) => result[1]
        /\ (operator \in {"starts with", "ends with"} /\ input_text = match_text)
              => result[1]
        /\ (operator = "equals" /\ input_text = <<"F", "o", "o">>
              /\ match_text = <<"f", "o", "o">>) => result[1] = ~case_sensitive

\* Equals("Foo", "foo") evaluated with case ignored
C8_Witness ==
    /\ result = <<TRUE>>
    /\ operator = "equals"
    /\ input_text = <<"F", "o", "o">>
    /\ match_text = <<"f", "o", "o">>
    /\ ~case_sensitive

----------------------------------------------------------------------------
(* C9 *)

\* C9: on the same texts and case mode, equals and not equals return
\* opposite results, and so take opposite edges.
C9_EqualsComplementsNotEquals ==
    (result # <<>> /\ operator \in {"equals", "not equals"}) =>
        LET other == IF operator = "equals" THEN "not equals" ELSE "equals"
            res2 == evaluate_condition(input_text, match_text, other, case_sensitive)
        IN  /\ result[1] = ~res2
            /\ TakenEdge(result[1]) = Opposite(TakenEdge(res2))

\* not equals evaluated, case ignored, on texts that differ only in case
C9_Witness ==
    /\ result = <<FALSE>>
    /\ operator = "not equals"
    /\ ~case_sensitive
    /\ input_text = <<"F", "o">>
    /\ match_text = <<"f", "o">>

----------------------------------------------------------------------------
(* C10 *)

\* C10: when Transcript IDs is not empty, run_lemur requests and returns what
\* it would with no Transcription Result at all: the group is built from the
\* split Transcript IDs, and the result's id and error play no part.
C10_TranscriptIdsOverrideResult ==
    (lemur_out # None /\ transcript_ids # <<>>) =>
        \E ext \in ExternalOutcomes :
            LET r == run_lemur(None, transcript_ids, endpoint, prompt, questions, ext)
            IN  lemur_out = r.out /\ group_ids = r.group

----------------------------------------------------------------------------
(* C11 *)

\* C11: an invocation whose count after the increment is below
\* max_iterations, or whose edge due to be stopped is not default_route,
\* stops exactly the edge opposite the predicate result; a flip is never
\* seen before invocation number max_iterations and is seen on that very
\* invocation when the edge due to be stopped is default_route.
C11_NoFlipBelowCap ==
    /\ (Evaluated /\ (Count < max_iterations \/ Opposite(Taken) # default_route))
          => stops = <<Opposite(Taken)>>
    /\ (Evaluated /\ stops = <<Taken>>) => invocations >= max_iterations
    /\ (Evaluated /\ invocations = max_iterations /\ Opposite(Taken) = default_route)
          => stops = <<Taken>>

\* one invocation before the cap, default_route is due to be stopped and is
\* stopped
C11_Witness ==
    /\ max_iterations = 3
    /\ invocations = 2
    /\ Count = 2
    /\ Evaluated
    /\ Opposite(Taken) = default_route
    /\ stops = <<default_route>>

----------------------------------------------------------------------------
(* C12 *)

\* the edge an invocation stops, from its inputs and the counter before it
StopDue ==
    IF Count + 1 >= max_iterations /\ Opposite(Taken) = default_route
    THEN Taken ELSE Opposite(Taken)

\* C12: within an invocation, whichever accessor is evaluated first issues
\* the one stop() signal and the one increment, with the same edge and count
\* for either accessor; every further evaluation changes neither, and each
\* accessor returns the same value however often and in whatever order it
\* is evaluated.
C12_OneStopWhateverTheOrder ==
    [][invocations' = invocations =>
          /\ IF ~Evaluated
             THEN stops' = <<StopDue>> /\ Count' = Count + 1
             ELSE stops' = stops /\ Count' = Count
          /\ ret_true' # NotCalled => ret_true' = (IF Predicate THEN message ELSE "")
          /\ ret_false' # NotCalled => ret_false' = (IF Predicate THEN "" ELSE message)
          /\ ret_true # NotCalled => ret_true' = ret_true
          /\ ret_false # NotCalled => ret_false' = ret_false]_vars

\* both accessors evaluated in the third invocation: one stop signal
C12_Witness ==
    /\ invocations = 3
    /\ ret_true # NotCalled
    /\ ret_false # NotCalled
    /\ Len(stops) = 1
    /\ Count = 3

----------------------------------------------------------------------------
(* C13 *)

\* C13: the counter is read and written in separate steps without a lock.
\* When the host runs one invocation at a time no increment is lost: the
\* stored count is the number of invocations started, less the one that has
\* not stored its count yet.  Without that, the count never exceeds the
\* number of invocations started (increments can only be lost).
C13_NoLostIncrementWhenSerialized ==
    /\ Count <= invocations
    /\ serialized =>
          /\ Cardinality(BeforeWrite) <= 1
          /\ Count = invocations - Cardinality(BeforeWrite)

\* two interleaved invocations have both read 0 and stored 1: with
\* max_iterations = 2 the second one is below the cap and stops default_route
C13_Witness ==
    /\ ~serialized
    /\ invocations = 2
    /\ \A w \in Workers : ~busy(w)
    /\ Count = 1
    /\ max_iterations = 2
    /\ stops = <<default_route, default_route>>

----------------------------------------------------------------------------
(* C14 *)

\* "<id>_iteration" for the id of this instance
OwnKey == "ConditionalRouter-1_iteration"

\* C14: a step of this evaluator changes no entry of the run context but the
\* one under "<id>_iteration", adds no other key, and stops at most one edge,
\* one of its own two; a step of the other evaluator leaves this one's
\* counter and stop signals alone.
C14_InvocationFrame ==
    [][/\ other_invocations' = other_invocations =>
             /\ \A k \in DOMAIN ctx \ {OwnKey} : k \in DOMAIN ctx' /\ ctx'[k] = ctx[k]
             /\ DOMAIN ctx' \subseteq DOMAIN ctx \cup {OwnKey}
             /\ stops' \in {stops, <<>>} \cup {Append(stops, e) : e \in Edges}
       /\ other_invocations' # other_invocations =>
             /\ Count' = Count
             /\ stops' = stops
             /\ iteration_updated' = iteration_updated]_vars

\* both evaluators have been invoked, this one up to its cap, and each
\* counter holds its own count
C14_Witness ==
    /\ other_invocations = 2
    /\ other_key \in DOMAIN ctx
    /\ invocations = 3
    /\ max_iterations = 3
    /\ Evaluated
    /\ Count = 3
    /\ Opposite(Taken) = default_route
    /\ stops = <<Taken>>

====
